---- MODULE Spec2Model ----
(***************************************************************************)
(* Model of static/app.js: the form controller of the resume-tailoring     *)
(* page.  The state is the part of the DOM the script reads and writes,    *)
(* the module-level stepTimer, the live interval timers with the idx each  *)
(* closure holds, and the async handlers suspended at an await.            *)
(*                                                                         *)
(* Text the script trims or decodes is a sequence of one-character         *)
(* strings; a literal the script substitutes for such text is a sequence   *)
(* of one token.  Text that is only copied is a TLA+ string.               *)
(*                                                                         *)
(* The page's HTML is not part of the script.  The model takes the usual   *)
(* markup for the ids the script looks up: generate-btn is the submit      *)
(* button of tailor-form, script-btn is a plain button, the overlay, the   *)
(* two panels and the modal start with class "hidden".  A disabled button  *)
(* receives no click and a form whose submit button is disabled is not     *)
(* submitted: this is what the handlers rely on when they set .disabled.   *)
(***************************************************************************)
EXTENDS Integers, Sequences, FiniteSets, TLC

VARIABLES
    fields,           \* form[...] .value of every named field
    activeTab,        \* data-tab of the element matching .tab.active
    activePane,       \* id suffix of the .tab-pane carrying class active
    stepTimer,        \* let stepTimer (line 80)
    timers,           \* live intervals: [id, idx] with idx the closure's let idx
    steps,            \* classList of each step element
    overlayHidden,    \* loadingOverlay has class hidden
    generateDisabled, \* generateBtn.disabled
    scriptDisabled,   \* scriptBtn.disabled
    btnLabel,         \* btnLabel.textContent
    resultsHidden,    \* resultsPanel has class hidden
    changesSummary,   \* changesSummary.textContent
    pageBadge,        \* #page-badge textContent
    errorHidden,      \* errorPanel has class hidden
    errorBody,        \* errorBody.textContent
    modalHidden,      \* scriptModal has class hidden
    scriptOutput,     \* scriptOutput.value
    changesModal,     \* changesModal.textContent
    flows,            \* handler invocations suspended at an await
    page,             \* live object URLs and anchors in document.body
    lastClicks,       \* anchor clicks made by the handler run that ended last
    domLog            \* the download calls that handler run made, in order

vars == <<fields, activeTab, activePane, stepTimer, timers, steps, overlayHidden,
          generateDisabled, scriptDisabled, btnLabel, resultsHidden,
          changesSummary, pageBadge, errorHidden, errorBody, modalHidden,
          scriptOutput, changesModal, flows, page, lastClicks, domLog>>

domVars == <<fields, activeTab, activePane>>
loadVars == <<stepTimer, timers, steps, overlayHidden>>
btnVars == <<generateDisabled, scriptDisabled, btnLabel>>
resultVars == <<resultsHidden, changesSummary, pageBadge>>
errorVars == <<errorHidden, errorBody>>
modalVars == <<modalHidden, scriptOutput, changesModal>>

(***************************************************************************)
(* Bounds                                                                  *)
(***************************************************************************)
\* Interval ids the page hands out; at most this many intervals live at once.
MaxTimers == 2

(***************************************************************************)
(* Text                                                                    *)
(***************************************************************************)
WhiteSpace == {" "}

RECURSIVE TrimStart(_)
TrimStart(s) ==
    IF s # <<>> /\ Head(s) \in WhiteSpace THEN TrimStart(Tail(s)) ELSE s

RECURSIVE TrimEnd(_)
TrimEnd(s) ==
    IF s # <<>> /\ s[Len(s)] \in WhiteSpace
    THEN TrimEnd(SubSeq(s, 1, Len(s) - 1)) ELSE s

\* String.prototype.trim
Trim(s) == TrimEnd(TrimStart(s))

\* a || b on text: the empty string is falsy
OrElse(a, b) == IF a # <<>> THEN a ELSE b

\* BASE_SCRIPT.trim(): one token for the template literal
BASE_SCRIPT == <<"BASE_SCRIPT">>
DefaultName == <<"BHARATH KUMAR RAJESH">>
DefaultSummary == <<"Resume tailored successfully using Claude AI.">>

FieldNames == {"base_script", "jd_api_endpoint", "jd_api_key", "job_id",
               "jd_raw", "candidate_name", "target_role", "company_name"}

NoTab == "undefined"
TabNames == {"paste", "api"}

(***************************************************************************)
(* Loading steps                                                           *)
(***************************************************************************)
STEPS == <<"step-1", "step-2", "step-3", "step-4">>
StepIds == {STEPS[i] : i \in 1..Len(STEPS)}
TimerIds == 1..MaxTimers

\* STEPS.forEach(el.classList.remove('active','done'))
ClearedSteps == [s \in StepIds |-> {}]

\* showLoading: a fresh interval is created and its id stored in stepTimer.
\* idx is kept 1-based: the closure's idx + 1.
ShowLoading(id) ==
    /\ overlayHidden' = FALSE
    /\ steps' = [ClearedSteps EXCEPT ![STEPS[1]] = {"active"}]
    /\ timers' = timers \cup {[id |-> id, idx |-> 1]}
    /\ stepTimer' = id

\* hideLoading without clearInterval
HideLoading_NoClear ==
    /\ overlayHidden' = TRUE
    /\ steps' = ClearedSteps
    /\ UNCHANGED <<stepTimer, timers>>

\* hideLoading: clearInterval(stepTimer) stops the interval with that id only
HideLoading ==
    /\ timers' = {t \in timers : t.id # stepTimer}
    /\ overlayHidden' = TRUE
    /\ steps' = ClearedSteps
    /\ UNCHANGED stepTimer

\* a callback that leaves the step it moves on from marked active
StepCallback_KeepActive(t) ==
    IF t.idx < Len(STEPS)
    THEN /\ steps' = [steps EXCEPT
                        ![STEPS[t.idx]] = @ \cup {"done"},
                        ![STEPS[t.idx + 1]] = @ \cup {"active"}]
         /\ timers' = (timers \ {t}) \cup {[t EXCEPT !.idx = t.idx + 1]}
    ELSE UNCHANGED <<steps, timers>>

\* one firing of the interval callback of timer t
StepCallback(t) ==
    IF t.idx < Len(STEPS)
    THEN /\ steps' = [steps EXCEPT
                        ![STEPS[t.idx]] = (@ \ {"active"}) \cup {"done"},
                        ![STEPS[t.idx + 1]] = @ \cup {"active"}]
         /\ timers' = (timers \ {t}) \cup {[t EXCEPT !.idx = t.idx + 1]}
    ELSE UNCHANGED <<steps, timers>>

(***************************************************************************)
(* Form data                                                               *)
(***************************************************************************)
\* collectFormData that reads every field whatever the tab
collectFormData_AnyTab(f, tab) ==
    [base_script     |-> Trim(f.base_script),
     jd_api_endpoint |-> OrElse(Trim(f.jd_api_endpoint), <<>>),
     jd_api_key      |-> OrElse(Trim(f.jd_api_key), <<>>),
     job_id          |-> OrElse(Trim(f.job_id), <<>>),
     jd_raw          |-> OrElse(Trim(f.jd_raw), <<>>),
     candidate_name  |-> OrElse(Trim(f.candidate_name), DefaultName),
     target_role     |-> OrElse(Trim(f.target_role), <<>>),
     company_name    |-> OrElse(Trim(f.company_name), <<>>)]

collectFormData(f, tab) ==
    [base_script     |-> Trim(f.base_script),
     jd_api_endpoint |-> IF tab = "api" THEN OrElse(Trim(f.jd_api_endpoint), <<>>) ELSE <<>>,
     jd_api_key      |-> IF tab = "api" THEN OrElse(Trim(f.jd_api_key), <<>>) ELSE <<>>,
     job_id          |-> IF tab = "api" THEN OrElse(Trim(f.job_id), <<>>) ELSE <<>>,
     jd_raw          |-> IF tab = "paste" THEN OrElse(Trim(f.jd_raw), <<>>) ELSE <<>>,
     candidate_name  |-> OrElse(Trim(f.candidate_name), DefaultName),
     target_role     |-> OrElse(Trim(f.target_role), <<>>),
     company_name    |-> OrElse(Trim(f.company_name), <<>>)]

NoError == "null"
MsgPaste == "Please paste a job description."
MsgApi == "Please enter a Job ID or Job URL."

\* validate that forgets the API tab
validate_PasteOnly(data, tab) ==
    IF tab = "paste" /\ data.jd_raw = <<>> THEN MsgPaste ELSE NoError

validate(data, tab) ==
    IF tab = "paste" /\ data.jd_raw = <<>> THEN MsgPaste
    ELSE IF tab = "api" /\ data.job_id = <<>> THEN MsgApi
    ELSE NoError

(***************************************************************************)
(* Panels                                                                  *)
(***************************************************************************)
\* `${pages} Page${pages !== 1 ? 's' : ''}`; pages is <<n>> or <<>> for NaN
PageBadge(pages) ==
    IF pages = <<>> THEN "NaN Pages - ATS Ready"
    ELSE ToString(pages[1]) \o " Page" \o (IF pages[1] # 1 THEN "s" ELSE "")
         \o " - ATS Ready"

showResults(summary, pages) ==
    /\ resultsHidden' = FALSE
    /\ changesSummary' = OrElse(summary, DefaultSummary)
    /\ pageBadge' = PageBadge(pages)

showError(msg) ==
    /\ errorHidden' = FALSE
    /\ errorBody' = msg


\* hideMessages that leaves the error panel as it is
hideMessages_KeepError ==
    /\ resultsHidden' = TRUE
    /\ UNCHANGED <<errorHidden, changesSummary, pageBadge, errorBody>>

\* hideMessages
hideMessages ==
    /\ resultsHidden' = TRUE
    /\ errorHidden' = TRUE
    /\ UNCHANGED <<changesSummary, pageBadge, errorBody>>

\* a validation failure that leaves the results panel as it is
hideMessagesShowError_KeepResults(err) ==
    /\ UNCHANGED <<resultsHidden, changesSummary, pageBadge>>
    /\ showError(err)

\* hideMessages(); showError(err): the error panel is hidden and shown again
hideMessagesShowError(err) ==
    /\ resultsHidden' = TRUE
    /\ UNCHANGED <<changesSummary, pageBadge>>
    /\ showError(err)

(***************************************************************************)
(* What the server and the transport can answer                            *)
(***************************************************************************)
NoHeader == <<"null">>                \* headers.get returns null
NotJson == [kind |-> "not json"]      \* a body resp.json() rejects
JsonNull == [kind |-> "null"]         \* the body `null`
NoValue == [kind |-> "undefined"]
StringValue(t) == [kind |-> "string", text |-> t]
ArrayValue(n) == [kind |-> "array", items |-> n]   \* an array of n objects

\* ToBoolean of a JSON value
Truthy(v) ==
    CASE v.kind = "undefined" -> FALSE
      [] v.kind = "string" -> v.text # ""
      [] v.kind = "array" -> TRUE

\* ToString of a JSON value (Array.prototype.join of plain objects)
JsToString(v) ==
    CASE v.kind = "undefined" -> "undefined"
      [] v.kind = "string" -> v.text
      [] v.kind = "array" ->
            IF v.items = 0 THEN "" ELSE "[object Object]"

ErrorStatuses == {422}
DetailValues == {NoValue, StringValue(""), StringValue("quota exceeded"),
                 ArrayValue(0), ArrayValue(1)}
ErrorBodies == {NotJson, JsonNull} \cup {[kind |-> "object", detail |-> d] : d \in DetailValues}

ScriptBodies == {NotJson, JsonNull,
    [kind |-> "object", script |-> NoValue, changes_summary |-> NoValue],
    [kind |-> "object", script |-> StringValue("print(1)"),
     changes_summary |-> StringValue("2 bullets")]}

PagesHeaders == {NoHeader, <<"2">>}
ChangesHeaders == {<<"%", "4", "1">>, <<"%", "4">>}

\* err.message of what fetch, resp.blob() and resp.json() reject with
TransportMessages == {"Failed to fetch"}
MsgSyntax == "Unexpected token < in JSON"
MsgNullRead == "Cannot read properties of null"
MsgURI == "URI malformed"

Digits == <<"0", "1", "2", "3", "4", "5", "6", "7", "8", "9">>
HexDigits == Digits \o <<"A", "B", "C", "D", "E", "F">>
IndexOf(c, seq) == CHOOSE i \in 1..Len(seq) : seq[i] = c
IsDigit(c) == \E i \in 1..Len(Digits) : Digits[i] = c
IsHex(c) == \E i \in 1..Len(HexDigits) : HexDigits[i] = c

\* parseInt(s, 10) of unsigned text: the value of the longest digit prefix,
\* <<n>>, or <<>> for NaN
RECURSIVE DigitPrefix(_, _)
DigitPrefix(s, acc) ==
    IF s # <<>> /\ IsDigit(Head(s))
    THEN DigitPrefix(Tail(s), acc * Len(Digits) + (IndexOf(Head(s), Digits) - 1))
    ELSE acc

parseInt(s) ==
    LET t == TrimStart(s)
    IN  IF t # <<>> /\ IsDigit(Head(t)) THEN <<DigitPrefix(t, 0)>> ELSE <<>>

\* decodeURIComponent: %XX of an ASCII byte becomes its character, a byte
\* that opens a multi-byte sequence the text is too short to hold, or a %
\* without two hex digits, throws URIError.
URIError == <<"URIError">>
CharOfByte(b) == IF b = 65 THEN "A" ELSE IF b = 32 THEN " " ELSE "?"

RECURSIVE decodeURIComponent(_)
decodeURIComponent(s) ==
    IF s = <<>> THEN <<>>
    ELSE IF Head(s) # "%"
    THEN LET rest == decodeURIComponent(Tail(s))
         IN  IF rest = URIError THEN URIError ELSE <<Head(s)>> \o rest
    ELSE IF Len(s) < 3 \/ ~IsHex(s[2]) \/ ~IsHex(s[3]) THEN URIError
    ELSE LET b == (IndexOf(s[2], HexDigits) - 1) * Len(HexDigits)
                    + (IndexOf(s[3], HexDigits) - 1)
             rest == decodeURIComponent(SubSeq(s, 4, Len(s)))
         IN  IF b >= 128 \/ rest = URIError THEN URIError
             ELSE <<CharOfByte(b)>> \o rest

\* resp.headers.get(name) || dflt
HeaderOr(h, dflt) == IF h = NoHeader \/ h = <<>> THEN dflt ELSE h


(***************************************************************************)
(* Downloads                                                               *)
(***************************************************************************)
\* a download whose anchor is never clicked
DownloadOps_NoClick == <<"createObjectURL", "appendChild", "removeChild",
                         "revokeObjectURL">>

\* a download that revokes the object URL before the anchor is clicked
DownloadOps_RevokeFirst == <<"createObjectURL", "appendChild",
                             "revokeObjectURL", "click", "removeChild">>

\* The DOM calls of one download, in the order the handler makes them
DownloadOps == <<"createObjectURL", "appendChild", "click", "removeChild",
                 "revokeObjectURL">>

ApplyOp(p, op) ==
    CASE op = "createObjectURL" -> [p EXCEPT !.urls = @ + 1]
      [] op = "appendChild" -> [p EXCEPT !.anchors = @ + 1]
      [] op = "click" -> [p EXCEPT !.clicks = @ + 1]
      [] op = "removeChild" -> [p EXCEPT !.anchors = @ - 1]
      [] op = "revokeObjectURL" -> [p EXCEPT !.urls = @ - 1]
      [] op = "showResults" -> p

RECURSIVE ApplyOps(_, _)
ApplyOps(p, ops) ==
    IF ops = <<>> THEN p ELSE ApplyOps(ApplyOp(p, Head(ops)), Tail(ops))

\* the calls of the submit handler from URL.createObjectURL to showResults
SubmitSuccessOps == DownloadOps \o <<"showResults">>

\* the calls of the dlScriptBtn click handler
ScriptDownloadOps == <<"createObjectURL", "appendChild", "click",
                       "removeChild", "revokeObjectURL">>

\* urls, anchors: the page after a handler made the calls ops;
\* clicks: the anchor clicks among them
PageAfter(ops) ==
    ApplyOps([urls |-> page.urls, anchors |-> page.anchors, clicks |-> 0], ops)

(***************************************************************************)
(* Initial state: the script has run to its end on the loaded page         *)
(***************************************************************************)
EmptyFields == [n \in FieldNames |-> <<>>]
NoTimer == 0

InitUI ==
    /\ activePane = activeTab
    /\ stepTimer = NoTimer
    /\ timers = {}
    /\ steps = ClearedSteps
    /\ overlayHidden = TRUE
    /\ generateDisabled = FALSE
    /\ scriptDisabled = FALSE
    /\ btnLabel = "Generate Tailored PDF"
    /\ resultsHidden = TRUE
    /\ changesSummary = <<>>
    /\ pageBadge = ""
    /\ errorHidden = TRUE
    /\ errorBody = ""
    /\ modalHidden = TRUE
    /\ scriptOutput = ""
    /\ changesModal = ""
    /\ flows = {}
    /\ page = [urls |-> 0, anchors |-> 0]
    /\ lastClicks = 0
    /\ domLog = <<>>

\* baseScriptTA.value = BASE_SCRIPT.trim()
Init ==
    /\ fields = [EmptyFields EXCEPT !.base_script = BASE_SCRIPT]
    /\ activeTab = "paste"
    /\ InitUI

(***************************************************************************)
(* Tabs, typing, dismissals                                                *)
(***************************************************************************)
\* click inside #jd-tabs; target is the .tab the click landed in, or NoTab
\* when closest('.tab') is null
TabClick(target) ==
    /\ IF target = NoTab
       THEN UNCHANGED <<activeTab, activePane>>
       ELSE /\ activeTab' = target
            /\ activePane' = target
    /\ UNCHANGED <<fields, loadVars, btnVars, resultVars, errorVars, modalVars,
                   flows, page, lastClicks, domLog>>

\* the user edits a field
TypeText(name, text) ==
    /\ fields' = [fields EXCEPT ![name] = text]
    /\ UNCHANGED <<activeTab, activePane, loadVars, btnVars, resultVars,
                   errorVars, modalVars, flows, page, lastClicks, domLog>>

ResetScript ==
    /\ fields' = [fields EXCEPT !.base_script = BASE_SCRIPT]
    /\ UNCHANGED <<activeTab, activePane, loadVars, btnVars, resultVars,
                   errorVars, modalVars, flows, page, lastClicks, domLog>>

ErrorClose ==
    /\ errorHidden' = TRUE
    /\ UNCHANGED <<errorBody, domVars, loadVars, btnVars, resultVars, modalVars,
                   flows, page, lastClicks, domLog>>

\* hiding the modal also empties the script it holds
HideModal_ClearsScript ==
    /\ modalHidden' = TRUE
    /\ scriptOutput' = ""
    /\ UNCHANGED <<changesModal, domVars, loadVars, btnVars, resultVars,
                   errorVars, flows, page, lastClicks, domLog>>

\* scriptModal.classList.add('hidden')
HideModal ==
    /\ modalHidden' = TRUE
    /\ UNCHANGED <<scriptOutput, changesModal, domVars, loadVars, btnVars,
                   resultVars, errorVars, flows, page, lastClicks, domLog>>

ModalClose == HideModal

\* click on the modal: only a click whose target is the modal itself hides it
ModalClick(onBackdrop) ==
    IF onBackdrop THEN HideModal ELSE UNCHANGED vars

\* keydown
KeyDown(key) ==
    IF key = "Escape" THEN HideModal ELSE UNCHANGED vars

\* dlScriptBtn 'click' listener; the button sits in the script modal
DownloadScript ==
    /\ ~modalHidden
    /\ LET p == PageAfter(ScriptDownloadOps)
       IN  /\ page' = [urls |-> p.urls, anchors |-> p.anchors]
           /\ lastClicks' = p.clicks
           /\ domLog' = ScriptDownloadOps
    /\ UNCHANGED <<domVars, loadVars, btnVars, resultVars, errorVars,
                   modalVars, flows>>

\* the interval of timer t fires
TimerFires(t) ==
    /\ t \in timers
    /\ StepCallback(t)
    /\ UNCHANGED <<stepTimer, overlayHidden, domVars, btnVars, resultVars,
                   errorVars, modalVars, flows, page, lastClicks, domLog>>


(***************************************************************************)
(* The two request handlers                                                *)
(***************************************************************************)
LabelIdle == "Generate Tailored PDF"
LabelBusy == "Tailoring..."
SubmitFallback == "An unexpected error occurred. Check the server logs."
ScriptFallback == "Script generation failed. Check the server logs."

LiveIds == {t.id : t \in timers}
\* setInterval returns an id no live interval has
FreshTimer == CHOOSE i \in TimerIds \ LiveIds : \A j \in TimerIds \ LiveIds : i <= j

\* fetch('/tailor', {method: 'POST', body: JSON.stringify(data)})
SubmitRequest(data) == [url |-> "/tailor", body |-> data]
\* the script handler posting to the generate endpoint
ScriptRequest_ToTailor(data) == [url |-> "/tailor", body |-> data]

\* fetch('/script', {method: 'POST', body: JSON.stringify(data)})
ScriptRequest(data) == [url |-> "/script", body |-> data]

\* a handler invocation suspended at await fetch(...)
NewFlow(id, trigger, req) ==
    [id |-> id, trigger |-> trigger, url |-> req.url, body |-> req.body,
     pc |-> "fetch", status |-> 0, json |-> NoValue, pages |-> <<>>,
     changes |-> <<>>]

\* if (err) { hideMessages(); showError(err); return; }
Rejected(err) ==
    /\ hideMessagesShowError(err)
    /\ lastClicks' = 0
    /\ domLog' = <<>>
    /\ UNCHANGED <<domVars, loadVars, btnVars, modalVars, flows, page>>

\* a submit handler that leaves the buttons enabled
SubmitStart_NoDisable(data, id) ==
    /\ hideMessages
    /\ ShowLoading(id)
    /\ btnLabel' = "Tailoring..."
    /\ flows' = flows \cup {[id |-> id, trigger |-> "submit", url |-> "/tailor",
                             body |-> data, pc |-> "fetch", status |-> 0,
                             json |-> NoValue, pages |-> <<>>, changes |-> <<>>]}
    /\ UNCHANGED <<generateDisabled, scriptDisabled, domVars, modalVars, page,
                   lastClicks, domLog>>

\* the submit handler from hideMessages() to await fetch('/tailor')
SubmitStart(data, id) ==
    /\ hideMessages
    /\ ShowLoading(id)
    /\ generateDisabled' = TRUE
    /\ scriptDisabled' = TRUE
    /\ btnLabel' = LabelBusy
    /\ flows' = flows \cup {NewFlow(id, "submit", SubmitRequest(data))}
    /\ UNCHANGED <<domVars, modalVars, page, lastClicks, domLog>>

\* the click handler from hideMessages() to await fetch('/script')
ScriptStart(data, id) ==
    /\ hideMessages
    /\ ShowLoading(id)
    /\ generateDisabled' = TRUE
    /\ scriptDisabled' = TRUE
    /\ UNCHANGED btnLabel
    /\ flows' = flows \cup {NewFlow(id, "script", ScriptRequest(data))}
    /\ UNCHANGED <<domVars, modalVars, page, lastClicks, domLog>>

\* the form can be submitted: its submit button is not disabled
CanSubmit == ~generateDisabled
\* the script button can be clicked
CanClickScript == ~scriptDisabled

\* form 'submit' listener
Submit ==
    /\ CanSubmit
    /\ LET data == collectFormData(fields, activeTab)
           err == validate(data, activeTab)
       IN  IF err # NoError
           THEN Rejected(err)
           ELSE /\ TimerIds \ LiveIds # {}
                /\ SubmitStart(data, FreshTimer)

\* scriptBtn 'click' listener
ScriptClick ==
    /\ CanClickScript
    /\ LET data == collectFormData(fields, activeTab)
           err == validate(data, activeTab)
       IN  IF err # NoError
           THEN Rejected(err)
           ELSE /\ TimerIds \ LiveIds # {}
                /\ ScriptStart(data, FreshTimer)

\* the message is shown as it is, empty or not
MessageOr_NoFallback(msg, fallback) == msg

\* err.message || fallback
MessageOr(msg, fallback) == IF msg # "" THEN msg ELSE fallback

SubmitCatch(msg) == showError(MessageOr(msg, SubmitFallback))
ScriptCatch(msg) == showError(MessageOr(msg, ScriptFallback))

\* a finally block that hides the overlay and stops there
SubmitFinally_NoEnable ==
    /\ HideLoading
    /\ UNCHANGED <<generateDisabled, scriptDisabled, btnLabel>>

\* a finally block that leaves the label as it is
SubmitFinally_KeepLabel ==
    /\ HideLoading
    /\ generateDisabled' = FALSE
    /\ scriptDisabled' = FALSE
    /\ UNCHANGED btnLabel

SubmitFinally ==
    /\ HideLoading
    /\ generateDisabled' = FALSE
    /\ scriptDisabled' = FALSE
    /\ btnLabel' = LabelIdle

\* a finally block that re-enables the script button only
ScriptFinally_OneButton ==
    /\ HideLoading
    /\ scriptDisabled' = FALSE
    /\ UNCHANGED <<generateDisabled, btnLabel>>

ScriptFinally ==
    /\ HideLoading
    /\ generateDisabled' = FALSE
    /\ scriptDisabled' = FALSE
    /\ UNCHANGED btnLabel

\* the try block of flow f throws an error with this message: catch, finally
Fails(f, msg) ==
    /\ IF f.trigger = "submit"
       THEN SubmitCatch(msg) /\ SubmitFinally
       ELSE ScriptCatch(msg) /\ ScriptFinally
    /\ flows' = flows \ {f}
    /\ lastClicks' = 0
    /\ domLog' = <<>>
    /\ UNCHANGED <<domVars, resultVars, modalVars, page>>

\* flow f moves to its next await
Awaits(f, g) ==
    /\ flows' = (flows \ {f}) \cup {g}
    /\ UNCHANGED <<domVars, loadVars, btnVars, resultVars, errorVars,
                   modalVars, page, lastClicks, domLog>>

\* fetch rejects
FetchRejects(f, msg) ==
    /\ f.pc = "fetch"
    /\ Fails(f, msg)

\* fetch resolves with !resp.ok: the handler awaits resp.json()
FetchResolvesError(f, status, body) ==
    /\ f.pc = "fetch"
    /\ Awaits(f, [f EXCEPT !.pc = "errjson", !.status = status, !.json = body])

\* let detail = `Server error ${status}`;
\* try { const j = await resp.json(); detail = j.detail || detail } catch (_) {}
\* new Error(detail).message
ErrorDetail(status, body) ==
    LET detail == "Server error " \o ToString(status)
    IN  IF body.kind # "object" THEN detail
        ELSE IF Truthy(body.detail) THEN JsToString(body.detail)
        ELSE detail

\* resp.json() of the error response settles: throw new Error(detail)
ErrorBodyRead(f) ==
    /\ f.pc = "errjson"
    /\ Fails(f, ErrorDetail(f.status, f.json))

\* fetch('/tailor') resolves with resp.ok: headers are read, then await resp.blob()
TailorResolvesOk(f, xPages, xChanges) ==
    /\ f.pc = "fetch"
    /\ f.trigger = "submit"
    /\ LET pages == parseInt(HeaderOr(xPages, <<"1">>))
           changes == decodeURIComponent(HeaderOr(xChanges, <<>>))
       IN  IF changes = URIError
           THEN Fails(f, MsgURI)
           ELSE Awaits(f, [f EXCEPT !.pc = "blob", !.pages = pages,
                                    !.changes = changes])

\* resp.blob() resolves: download, showResults, finally
BlobResolves(f) ==
    /\ f.pc = "blob"
    /\ LET p == PageAfter(SubmitSuccessOps)
       IN  /\ page' = [urls |-> p.urls, anchors |-> p.anchors]
           /\ lastClicks' = p.clicks
           /\ domLog' = SubmitSuccessOps
    /\ showResults(f.changes, f.pages)
    /\ SubmitFinally
    /\ flows' = flows \ {f}
    /\ UNCHANGED <<domVars, errorVars, modalVars>>

\* resp.blob() rejects
BlobRejects(f, msg) ==
    /\ f.pc = "blob"
    /\ Fails(f, msg)

\* fetch('/script') resolves with resp.ok: await resp.json()
ScriptResolvesOk(f, body) ==
    /\ f.pc = "fetch"
    /\ f.trigger = "script"
    /\ Awaits(f, [f EXCEPT !.pc = "okjson", !.json = body])

\* v || '' assigned to a text property
TextOr(v) == IF Truthy(v) THEN JsToString(v) ELSE ""

\* resp.json() of the ok /script response settles
ScriptBodyRead(f) ==
    /\ f.pc = "okjson"
    /\ IF f.json = NotJson THEN Fails(f, MsgSyntax)
       ELSE IF f.json = JsonNull THEN Fails(f, MsgNullRead)
       ELSE /\ scriptOutput' = TextOr(f.json.script)
            /\ changesModal' = TextOr(f.json.changes_summary)
            /\ modalHidden' = FALSE
            /\ ScriptFinally
            /\ flows' = flows \ {f}
            /\ lastClicks' = 0
            /\ domLog' = <<>>
            /\ UNCHANGED <<domVars, resultVars, errorVars, page>>

(***************************************************************************)
(* Specifications                                                          *)
(***************************************************************************)
Texts == {<<>>, <<" ">>, <<" ", "a", " ">>}
Typed == ({"jd_raw"} \X Texts) \cup ({"job_id"} \X {<<>>, <<"7", " ">>})

Next ==
    \/ \E target \in TabNames \cup {NoTab} : TabClick(target)
    \/ \E e \in Typed : TypeText(e[1], e[2])
    \/ ErrorClose
    \/ ModalClose
    \/ \E b \in BOOLEAN : ModalClick(b)
    \/ \E key \in {"Escape", "Enter"} : KeyDown(key)
    \/ \E t \in timers : TimerFires(t)
    \/ Submit
    \/ ScriptClick
    \/ \E f \in flows, msg \in TransportMessages : FetchRejects(f, msg)
    \/ \E f \in flows, st \in ErrorStatuses, b \in ErrorBodies :
            FetchResolvesError(f, st, b)
    \/ \E f \in flows : ErrorBodyRead(f)
    \/ \E f \in flows, xp \in PagesHeaders, xc \in ChangesHeaders :
            TailorResolvesOk(f, xp, xc)
    \/ \E f \in flows : BlobResolves(f)
    \/ \E f \in flows, msg \in TransportMessages : BlobRejects(f, msg)
    \/ \E f \in flows, b \in ScriptBodies : ScriptResolvesOk(f, b)
    \/ \E f \in flows : ScriptBodyRead(f)

Spec == Init /\ [][Next]_vars

\* The form as the user left it: every field holds one of a few texts, with
\* or without a tab marked active; the handlers then run on that form.
FilledForms ==
    {f \in [FieldNames -> Texts \cup {BASE_SCRIPT}] :
        /\ f.base_script \in {BASE_SCRIPT, <<" ">>}
        /\ \A n \in FieldNames \ {"base_script"} : f[n] \in Texts
        /\ \A n \in {"jd_api_endpoint", "jd_api_key", "target_role",
                      "company_name"} : f[n] # <<>>}

InitForm ==
    /\ fields \in FilledForms
    /\ activeTab \in {"paste", NoTab}
    /\ InitUI

NextForm ==
    \/ \E target \in TabNames : TabClick(target)
    \/ ResetScript
    \/ Submit
    \/ ScriptClick
    \/ \E f \in flows, msg \in TransportMessages : FetchRejects(f, msg)

SpecForm == InitForm /\ [][NextForm]_vars

\* The downloads: a page with a description pasted in, the two request
\* flows with every answer, and the download button of the modal.
InitDownload ==
    /\ fields = [EmptyFields EXCEPT !.base_script = BASE_SCRIPT,
                                    !.jd_raw = <<" ", "a", " ">>]
    /\ activeTab = "paste"
    /\ InitUI

NextDownload ==
    \/ Submit
    \/ ScriptClick
    \/ DownloadScript
    \/ ModalClose
    \/ \E f \in flows, msg \in TransportMessages : FetchRejects(f, msg)
    \/ \E f \in flows, xp \in PagesHeaders, xc \in ChangesHeaders :
            TailorResolvesOk(f, xp, xc)
    \/ \E f \in flows : BlobResolves(f)
    \/ \E f \in flows, msg \in TransportMessages : BlobRejects(f, msg)
    \/ \E f \in flows, b \in ScriptBodies : ScriptResolvesOk(f, b)
    \/ \E f \in flows : ScriptBodyRead(f)

SpecDownload == InitDownload /\ [][NextDownload]_vars

\* a pending promise of flow f settles and the handler runs to its next
\* await or to its end
Settles(f) ==
    \/ \E msg \in TransportMessages : FetchRejects(f, msg)
    \/ \E st \in ErrorStatuses, b \in ErrorBodies : FetchResolvesError(f, st, b)
    \/ ErrorBodyRead(f)
    \/ \E xp \in PagesHeaders, xc \in ChangesHeaders : TailorResolvesOk(f, xp, xc)
    \/ BlobResolves(f)
    \/ \E msg \in TransportMessages : BlobRejects(f, msg)
    \/ \E b \in ScriptBodies : ScriptResolvesOk(f, b)
    \/ ScriptBodyRead(f)

SomeSettles == \E f \in flows : Settles(f)

\* The request flows on a page with a description pasted in, under a
\* transport that settles every promise it hands out: the continuation of a
\* settled promise is a microtask the event loop always runs.
NextLive ==
    \/ Submit
    \/ ScriptClick
    \/ ErrorClose
    \/ \E t \in timers : TimerFires(t)
    \/ SomeSettles

SpecLive == InitDownload /\ [][NextLive]_vars /\ WF_vars(SomeSettles)


(***************************************************************************)
(* Properties                                                              *)
(***************************************************************************)
\* the DOM holds no job description source for the active tab
Unfilled ==
    \/ activeTab = "paste" /\ Trim(fields.jd_raw) = <<>>
    \/ activeTab = "api" /\ Trim(fields.job_id) = <<>>

ExpectedValidation == IF activeTab = "paste" THEN MsgPaste ELSE MsgApi

\* C1: a submit or a script click on a page whose active tab is paste with an
\* empty trimmed description, or api with an empty trimmed job identifier,
\* gets an error string from validate, sends no request, leaves the overlay
\* hidden and both buttons enabled, hides the results panel and shows the
\* error panel with that string.
C1_ValidationRejects ==
    [][(Unfilled /\ (Submit \/ ScriptClick)) =>
          /\ validate(collectFormData(fields, activeTab), activeTab)
                = ExpectedValidation
          /\ flows' = flows
          /\ overlayHidden /\ overlayHidden'
          /\ timers' = timers
          /\ ~generateDisabled' /\ ~scriptDisabled'
          /\ resultsHidden'
          /\ ~errorHidden'
          /\ errorBody' = ExpectedValidation]_vars

C1_Witness ==
    /\ activeTab = "api"
    /\ fields.job_id = <<>>
    /\ fields.jd_raw = <<" ", "a", " ">>
    /\ ~errorHidden
    /\ errorBody = MsgApi
    /\ resultsHidden
    /\ flows = {}
    /\ overlayHidden


\* flow f runs to the end of its handler in this step
FlowEnds(f) == f \in flows /\ \A g \in flows' : g.id # f.id

\* the state the finally blocks leave: overlay hidden, no interval live, no
\* step marked, both buttons enabled
LoadingCleared ==
    /\ overlayHidden
    /\ timers = {}
    /\ steps = ClearedSteps
    /\ ~generateDisabled
    /\ ~scriptDisabled

\* C2 as stated: a /tailor flow that has received an ok response (it awaits
\* resp.blob()) ends with exactly one anchor click and the loading state
\* cleared.
C2_OkResponseDownloadsOnce ==
    [][\A f \in flows :
          (f.url = "/tailor" /\ f.pc = "blob" /\ FlowEnds(f)) =>
              (lastClicks' = 1 /\ LoadingCleared')]_vars

\* C2 amended: a /tailor flow whose ok response is read to its end
\* (resp.blob() resolves) ends with exactly one anchor click, no object URL
\* or anchor left behind; every other end of a /tailor flow clicks no
\* anchor; and every end of a /tailor flow leaves the loading state cleared.
C2_DownloadOnceWhenBodyRead ==
    [][\A f \in flows :
          (f.url = "/tailor" /\ FlowEnds(f)) =>
              /\ LoadingCleared'
              /\ IF f.pc = "blob" /\ BlobResolves(f)
                 THEN lastClicks' = 1 /\ page' = page
                 ELSE lastClicks' = 0]_vars

C2_Witness ==
    /\ lastClicks = 1
    /\ ~resultsHidden
    /\ flows = {}
    /\ LoadingCleared

\* the step ends flow f in its catch block
FlowFails(f) ==
    /\ FlowEnds(f)
    /\ ~(f.pc = "blob" /\ BlobResolves(f))
    /\ ~(f.pc = "okjson" /\ f.json.kind = "object")

\* C3: every flow that fails (fetch rejects, the response is not ok, or
\* reading the response throws), to either endpoint, ends with both buttons
\* enabled, the overlay hidden and the error panel visible with a non-empty
\* message.
C3_FailureReenablesAndReports ==
    [][\A f \in flows :
          FlowFails(f) =>
              /\ ~generateDisabled'
              /\ ~scriptDisabled'
              /\ overlayHidden'
              /\ ~errorHidden'
              /\ errorBody' # ""]_vars

C3_Witness ==
    /\ flows = {}
    /\ ~errorHidden
    /\ errorBody = ScriptFallback
    /\ ~generateDisabled
    /\ ~scriptDisabled
    /\ overlayHidden

\* C4: at most one request flow is outstanding in every reachable state.
C4_OneRequestAtATime == Cardinality(flows) <= 1

\* a second flow is in flight after an earlier one has failed
C4_Witness ==
    /\ Cardinality(flows) = 1
    /\ errorBody = "Failed to fetch"
    /\ generateDisabled
    /\ scriptDisabled

\* C5: whenever the overlay is hidden or no flow is running, no interval
\* started by showLoading is live and no step is marked active or done.
C5_TimerClearedWhenIdle ==
    (overlayHidden \/ flows = {}) => (timers = {} /\ steps = ClearedSteps)

\* a flow has run and ended: stepTimer keeps the id of a cleared interval
C5_Witness ==
    /\ overlayHidden
    /\ flows = {}
    /\ stepTimer # NoTimer
    /\ timers = {}

\* steps 1..k-1 are done, step k is active, the steps after k are unmarked
IsBar(k) ==
    \A i \in 1..Len(STEPS) :
        steps[STEPS[i]] = IF i < k THEN {"done"}
                          ELSE IF i = k THEN {"active"} ELSE {}

Later(k) == IF k < Len(STEPS) THEN k + 1 ELSE k

\* C6: while the overlay is shown the steps form a progress bar at some k,
\* kept by the one live interval; a firing of the interval moves the bar
\* from k to k+1, or leaves it at the last step; while the overlay stays
\* shown the bar moves in no other way.
C6_ProgressBar ==
    /\ [](~overlayHidden =>
            \E k \in 1..Len(STEPS) :
                IsBar(k) /\ timers = {[id |-> stepTimer, idx |-> k]})
    /\ [][(~overlayHidden /\ ~overlayHidden') =>
            \A k \in 1..Len(STEPS) :
                IsBar(k) =>
                    IF \E t \in timers : TimerFires(t)
                    THEN IsBar(Later(k))'
                    ELSE IsBar(k)']_vars

C6_Witness ==
    /\ ~overlayHidden
    /\ IsBar(Len(STEPS))
    /\ timers = {[id |-> stepTimer, idx |-> Len(STEPS)]}


OptionalFields == {"jd_api_endpoint", "jd_api_key", "job_id", "jd_raw",
                   "target_role", "company_name"}

\* C7: the payload collectFormData builds from the page has empty
\* jd_api_endpoint, jd_api_key and job_id when the paste tab is active and an
\* empty jd_raw when the api tab is active, whatever those fields hold; an
\* optional field that is empty or blank becomes the empty string and
\* candidate_name the fixed literal; a request in flight carries the payload
\* of the page it was sent from.
C7_PayloadFollowsTab ==
    LET data == collectFormData(fields, activeTab)
    IN  /\ activeTab = "paste" =>
              /\ data.jd_api_endpoint = <<>>
              /\ data.jd_api_key = <<>>
              /\ data.job_id = <<>>
        /\ activeTab = "api" => data.jd_raw = <<>>
        /\ \A n \in OptionalFields :
              (\A i \in 1..Len(fields[n]) : fields[n][i] = " ") => data[n] = <<>>
        /\ (\A i \in 1..Len(fields.candidate_name) :
                fields.candidate_name[i] = " ") =>
              data.candidate_name = <<"BHARATH KUMAR RAJESH">>
        /\ \A f \in flows :
              /\ f.body.jd_raw # <<>> =>
                    (f.body.job_id = <<>> /\ f.body.jd_api_key = <<>>
                        /\ f.body.jd_api_endpoint = <<>>)
              /\ f.body.candidate_name # <<>>

\* a request sent from the paste tab while the API fields are filled in and
\* the name is blank
C7_Witness ==
    /\ activeTab = "paste"
    /\ fields.job_id = <<" ", "a", " ">>
    /\ fields.jd_api_key = <<" ", "a", " ">>
    /\ fields.candidate_name = <<" ">>
    /\ \E f \in flows :
          /\ f.body = collectFormData(fields, activeTab)
          /\ f.body.job_id = <<>>
          /\ f.body.jd_raw = <<"a">>
          /\ f.body.candidate_name = DefaultName

Valid == validate(collectFormData(fields, activeTab), activeTab) = NoError

\* the step starts exactly one flow: trigger's, to url, carrying the payload
\* of the page as it is now
Posts(trigger, url) ==
    \E f \in flows' :
        /\ f \notin flows
        /\ flows' = flows \cup {f}
        /\ f.trigger = trigger
        /\ f.url = url
        /\ f.pc = "fetch"
        /\ f.body = collectFormData(fields, activeTab)

\* C8: a valid form submit starts exactly one request, to /tailor; a valid
\* script click starts exactly one request, to /script; both carry the
\* payload built from the current fields, so the same page gives both
\* triggers the same payload; a flow's endpoint is its trigger's.
C8_EndpointByTrigger ==
    /\ [][/\ (Valid /\ Submit) => Posts("submit", "/tailor")
          /\ (Valid /\ ScriptClick) => Posts("script", "/script")]_vars
    /\ [](\A f \in flows : f.url = "/tailor" <=> f.trigger = "submit")
    /\ [](SubmitRequest(collectFormData(fields, activeTab)).body
            = ScriptRequest(collectFormData(fields, activeTab)).body)

\* a /script request in flight after a /tailor request has failed
C8_Witness ==
    /\ errorBody = "Failed to fetch"
    /\ btnLabel = LabelIdle
    /\ \E f \in flows :
          /\ f.trigger = "script"
          /\ f.url = "/script"
          /\ f.body = collectFormData(fields, activeTab)
          /\ f.body.jd_raw = <<"a">>


\* the text the claim expects for a non-ok response: the detail of a JSON
\* body when it has one that is not empty, else the status line
DetailOrStatus(status, body) ==
    IF /\ body.kind = "object"
       /\ body.detail.kind = "string"
       /\ body.detail.text # ""
    THEN body.detail.text
    ELSE "Server error " \o ToString(status)

\* C9: every flow that ends after a non-ok response shows, in the error
\* panel, the detail text of the JSON body verbatim when the body has a
\* non-empty detail and "Server error <status>" otherwise; a handler's
\* generic fallback is never shown for a response that arrived.
C9_DetailOrStatusShown ==
    [][\A f \in flows :
          (f.pc = "errjson" /\ FlowEnds(f)) =>
              /\ ~errorHidden'
              /\ errorBody' = DetailOrStatus(f.status, f.json)
              /\ errorBody' \notin {SubmitFallback, ScriptFallback}]_vars

\* the text a JSON value that is a string or absent gives a text property
TextOf(v) == IF v.kind = "string" THEN v.text ELSE ""

\* C10: a flow ends in one outcome.  A /tailor flow whose body is read shows
\* the results panel, keeps the error panel hidden and opens no modal; a
\* /script flow whose JSON object is read opens the modal with the script
\* text and summary it returned, keeps both panels hidden and clicks no
\* anchor; a flow that fails shows the error panel, clicks no anchor, keeps
\* the results panel hidden and leaves the modal as it was.
C10_OneOutcome ==
    [][\A f \in flows :
          FlowEnds(f) =>
              IF f.pc = "blob" /\ BlobResolves(f)
              THEN /\ ~resultsHidden'
                   /\ errorHidden'
                   /\ lastClicks' = 1
                   /\ UNCHANGED <<modalHidden, scriptOutput, changesModal>>
              ELSE IF f.pc = "okjson" /\ f.json.kind = "object"
              THEN /\ ~modalHidden'
                   /\ scriptOutput' = TextOf(f.json.script)
                   /\ changesModal' = TextOf(f.json.changes_summary)
                   /\ resultsHidden'
                   /\ errorHidden'
                   /\ lastClicks' = 0
              ELSE /\ ~errorHidden'
                   /\ resultsHidden'
                   /\ lastClicks' = 0
                   /\ UNCHANGED <<modalHidden, scriptOutput, changesModal>>]_vars

\* the modal shows a returned script after an earlier flow had failed
C10_Witness ==
    /\ flows = {}
    /\ ~modalHidden
    /\ scriptOutput = "print(1)"
    /\ changesModal = "2 bullets"
    /\ resultsHidden
    /\ errorHidden
    /\ errorBody = "Failed to fetch"


\* position of the call op in the log, 0 when the log has no such call
Position(log, op) ==
    IF \E i \in 1..Len(log) : log[i] = op
    THEN CHOOSE i \in 1..Len(log) : log[i] = op
    ELSE 0

Times(log, op) == Cardinality({i \in 1..Len(log) : log[i] = op})

\* C11: a handler that downloads creates the object URL, appends the anchor,
\* clicks it, removes it and revokes the URL, each once and in this order;
\* showResults, when the handler calls it, comes after the revocation; and
\* when the handler has finished no object URL is live and no anchor is left
\* in the document.
C11_DownloadOrder ==
    /\ page.urls = 0
    /\ page.anchors = 0
    /\ domLog # <<>> =>
          /\ \A op \in {"createObjectURL", "appendChild", "click",
                        "removeChild", "revokeObjectURL"} :
                Times(domLog, op) = 1
          /\ Position(domLog, "createObjectURL") < Position(domLog, "appendChild")
          /\ Position(domLog, "appendChild") < Position(domLog, "click")
          /\ Position(domLog, "click") < Position(domLog, "removeChild")
          /\ Position(domLog, "removeChild") < Position(domLog, "revokeObjectURL")
          /\ lastClicks = 1
          /\ \A i \in 1..Len(domLog) :
                domLog[i] = "showResults" =>
                    Position(domLog, "revokeObjectURL") < i

\* the script file has been downloaded from the modal while the results of
\* an earlier PDF download are on the page
C11_Witness ==
    /\ domLog # <<>>
    /\ Times(domLog, "showResults") = 0
    /\ Times(domLog, "click") = 1
    /\ ~modalHidden
    /\ ~resultsHidden
    /\ scriptOutput = "print(1)"
    /\ flows = {}


\* C12: in every reachable state a request flow is in flight exactly when
\* the overlay is visible and exactly when the generate button is disabled,
\* and the script button is disabled exactly when the generate button is.
C12_IndicatorsAgree ==
    /\ (flows # {}) <=> ~overlayHidden
    /\ (flows # {}) <=> generateDisabled
    /\ generateDisabled <=> scriptDisabled

\* a script flow reading its response, after an earlier flow has ended
C12_Witness ==
    /\ \E f \in flows : f.trigger = "script" /\ f.pc = "okjson"
    /\ ~overlayHidden
    /\ generateDisabled
    /\ scriptDisabled
    /\ errorBody # ""

\* C13: the results panel and the error panel are never both visible; every
\* submit and every script click leaves the results panel hidden, and the
\* error panel too when the form is valid.
C13_PanelsExclusive ==
    /\ [](resultsHidden \/ errorHidden)
    /\ [][(Submit \/ ScriptClick) =>
            (resultsHidden' /\ (Valid => errorHidden'))]_vars

\* an error is on the page while the result of an earlier flow is hidden
C13_Witness ==
    /\ ~errorHidden
    /\ resultsHidden
    /\ changesSummary # <<>>
    /\ errorBody = MsgPaste
    /\ flows = {}


\* C14: every request in flight carries a job description source: its
\* payload has a non-empty jd_raw or a non-empty job_id.
C14_RequestHasSource ==
    \A f \in flows : f.body.jd_raw # <<>> \/ f.body.job_id # <<>>

allButModalHidden ==
    <<fields, activeTab, activePane, stepTimer, timers, steps, overlayHidden,
      generateDisabled, scriptDisabled, btnLabel, resultsHidden,
      changesSummary, pageBadge, errorHidden, errorBody, scriptOutput,
      changesModal, flows, page, lastClicks, domLog>>

\* C16: the modal goes from hidden to visible only in the step that ends a
\* /script flow whose JSON object was read; the close button, a click on the
\* backdrop and the Escape key each leave the modal hidden and change
\* nothing else, so that on a hidden modal they change nothing at all.
C16_ModalOpensAndCloses ==
    [][/\ (modalHidden /\ ~modalHidden') =>
              \E f \in flows :
                  /\ f.url = "/script"
                  /\ f.pc = "okjson"
                  /\ f.json.kind = "object"
                  /\ FlowEnds(f)
       /\ (ModalClose \/ ModalClick(TRUE) \/ KeyDown("Escape")) =>
              /\ modalHidden'
              /\ UNCHANGED allButModalHidden
              /\ modalHidden => UNCHANGED vars]_vars

\* the modal has been closed on a returned script while a request is in flight
C16_Witness ==
    /\ modalHidden
    /\ scriptOutput = "print(1)"
    /\ changesModal = "2 bullets"
    /\ flows # {}
    /\ ~overlayHidden

\* C17: the label reads the busy text exactly while a /tailor flow is in
\* flight and the idle text otherwise, so after every generate flow; the
\* label changes only in a step that starts or ends a /tailor flow.
C17_LabelFollowsTailor ==
    /\ [](btnLabel = IF \E f \in flows : f.url = "/tailor"
                     THEN "Tailoring..." ELSE "Generate Tailored PDF")
    /\ [][btnLabel' # btnLabel =>
            \/ \E f \in flows' : f.url = "/tailor" /\ f \notin flows
                                    /\ f.pc = "fetch"
            \/ \E f \in flows : f.url = "/tailor" /\ FlowEnds(f)]_vars

\* a generate flow has failed and a script flow is now in flight
C17_Witness ==
    /\ btnLabel = "Generate Tailored PDF"
    /\ errorBody = SubmitFallback
    /\ \E f \in flows : f.url = "/script"


Idle ==
    /\ flows = {}
    /\ overlayHidden
    /\ ~generateDisabled
    /\ ~scriptDisabled

\* C15: when every pending promise settles, a flow that has started its
\* request leads to the state its finally block leaves: no flow, overlay
\* hidden, both buttons enabled.  Nothing but a settling promise ends a flow,
\* hides the overlay or enables a button: the controller has no timeout, so
\* a request that never settles leaves the buttons disabled.
C15_FlowReachesFinally ==
    /\ (flows # {}) ~> Idle
    /\ [][(\/ \E f \in flows : FlowEnds(f)
           \/ generateDisabled /\ ~generateDisabled'
           \/ scriptDisabled /\ ~scriptDisabled'
           \/ ~overlayHidden /\ overlayHidden') => SomeSettles]_vars

\* a flow has been through its finally block
C15_Witness ==
    /\ Idle
    /\ stepTimer # NoTimer
    /\ timers = {}
    /\ ~errorHidden
    /\ errorBody = "quota exceeded"

====
